---- MODULE Spec2Model ----
(***************************************************************************)
(* A model of src/gis_workflow.py: the command-line script that sequences  *)
(* the Hydrology, Fault, Watershed and BQART stages of a GISbatch, the     *)
(* files it leaves on disk, and the Last-Run Record.                       *)
(*                                                                         *)
(* The state is the file system under the project root (directories, YAML  *)
(* files, rasters, zonal tables, CSV files) together with the position and *)
(* the local names of the run of the script that is in progress.  Several  *)
(* runs follow each other over the same file system.                       *)
(*                                                                         *)
(* The script is Python 2.  A name that is not bound raises NameError, an  *)
(* attribute that does not exist raises AttributeError, a missing          *)
(* dictionary key raises KeyError; the script catches OSError and IOError  *)
(* only (lines 1011-1013), so the other exceptions end the run.            *)
(***************************************************************************)
EXTENDS Integers, Sequences, FiniteSets, TLC

(***************************************************************************)
(* Bounds of the model.                                                    *)
(***************************************************************************)
\* Number of runs of the script that follow each other.
MaxRuns == 3
\* Number of times the operator may answer a path prompt with a missing file.
MaxPrompts == 1
\* Number of calls of the terrain analysis service that fail.
MaxFailures == 1

(***************************************************************************)
(* Python values.                                                          *)
(***************************************************************************)
\* A name that has not been assigned.
Undef == "<undefined>"
\* The Python value False (lines 571, 799, 864, 865).
False == "<False>"
\* The Python value None (app.pargs.batch without -b).
None == "<None>"
\* Truth value of a Python object in an if statement.
Truthy(v) == v \notin {False, None, "", Undef}

\* os.path.join of two components.
join(a, b) == a \o "/" \o b

\* d[k] = v on a Python dict.
DictSet(d, k, v) == [x \in DOMAIN d \cup {k} |-> IF x = k THEN v ELSE d[x]]

\* The empty dict.
EmptyDict == [x \in {} |-> Undef]

\* int(s) of the decimal text of a small number.
StrToInt(s) == CHOOSE n \in 0..9 : ToString(n) = s

(***************************************************************************)
(* YAML.  A document is a tree of nodes.  A scalar node has a style (plain *)
(* or single-quoted) and a text; a flow mapping node has a set of          *)
(* <<key node, value node>> items.  The representer writes an int as its   *)
(* plain decimal text, and a string plain unless the plain text would      *)
(* resolve to something else (an empty text to null, digits to an int), in *)
(* which case it quotes it.  The constructor resolves a plain scalar by    *)
(* its text and takes a quoted one as a string.                            *)
(***************************************************************************)
\* The resolver: a plain text of digits is an int.
ResolvesToInt(text) == \E n \in 0..9 : ToString(n) = text

ScalarNode(style, text) == [style |-> style, text |-> text, items |-> {}]
MappingNode(items) == [style |-> "{}", text |-> "", items |-> items]

represent_str(v) ==
    IF v = "" \/ ResolvesToInt(v) THEN ScalarNode("'", v)
    ELSE ScalarNode("plain", v)
represent_int(v) == ScalarNode("plain", ToString(v))

\* The attributes of a fault (get_fault_data): name and sense are strings,
\* the rates and ages are numbers.
represent_fault(f) ==
    MappingNode({<<represent_str(a),
                   IF a \in {"name", "sense"} THEN represent_str(f[a])
                   ELSE represent_int(f[a])>> : a \in DOMAIN f})

\* The value of a key of a manifest or of the Last-Run Record: uplift_rate
\* is a number, fault_meta_data a dict FID -> attributes, the others are
\* strings (paths, or '').
represent_value(k, v) ==
    IF k = "uplift_rate" THEN represent_int(v)
    ELSE IF k = "fault_meta_data"
    THEN MappingNode({<<represent_int(fid), represent_fault(v[fid])>> :
                        fid \in DOMAIN v})
    ELSE represent_str(v)

\* yaml.dump(mapping, default_flow_style=True): the document of a dict.
yaml_dump(m) ==
    MappingNode({<<represent_str(k), represent_value(k, m[k])>> : k \in DOMAIN m})

\* The constructor.
RECURSIVE construct(_)
construct(node) ==
    IF node.style = "{}"
    THEN [k \in {construct(e[1]) : e \in node.items} |->
            construct((CHOOSE e \in node.items : construct(e[1]) = k)[2])]
    ELSE IF node.style = "plain" /\ ResolvesToInt(node.text)
    THEN StrToInt(node.text)
    ELSE IF node.style = "plain" /\ node.text = "" THEN None
    ELSE node.text

\* yaml.load(text): the object the document describes.
yaml_load(t) == construct(t)

(***************************************************************************)
(* Python numbers.  A number is n/d * 10^e with n/d in lowest terms, d     *)
(* prime to 10 and n not a multiple of 10, which makes the representation  *)
(* of a value unique; the flag int tells a Python int from a float.  The   *)
(* script is Python 2 without "from __future__ import division": "/" on    *)
(* two ints is the floor division, on anything else the real division.     *)
(***************************************************************************)
RECURSIVE GCD(_, _)
GCD(a, b) == IF b = 0 THEN a ELSE GCD(b, a % b)

RECURSIVE Pow10(_)
Pow10(e) == IF e = 0 THEN 1 ELSE 10 * Pow10(e - 1)

\* n/d * 10^e with the factors 2 and 5 of d moved into n and e.
RECURSIVE ClearDen(_, _, _)
ClearDen(n, d, e) ==
    IF d % 2 = 0 THEN ClearDen(n * 5, d \div 2, e - 1)
    ELSE IF d % 5 = 0 THEN ClearDen(n * 2, d \div 5, e - 1)
    ELSE <<n, d, e>>

\* n * 10^e with the factors 10 of n moved into e.
RECURSIVE ClearTens(_, _)
ClearTens(n, e) ==
    IF n = 0 THEN <<0, 0>>
    ELSE IF n % 10 = 0 THEN ClearTens(n \div 10, e + 1)
    ELSE <<n, e>>

\* The number n/d * 10^e (n >= 0, d > 0) in its unique representation.
Num(isint, n, d, e) ==
    LET g == GCD(n, d)
        c == ClearDen(n \div g, d \div g, e)
        t == ClearTens(c[1], c[3])
    IN  [int |-> isint, n |-> t[1], d |-> IF t[1] = 0 THEN 1 ELSE c[2],
         e |-> t[2]]

\* An int literal or value, and a float given by its decimal digits.
PyInt(i) == Num(TRUE, i, 1, 0)
PyFloat(digits, e) == Num(FALSE, digits, 1, e)
\* float(x)
float(x) == [x EXCEPT !.int = FALSE]
\* The value of an int.
IntVal(x) == x.n * Pow10(x.e)
\* Two numbers have the same value (1 == 1.0 in Python).
NumEq(x, y) == x.n = y.n /\ x.d = y.d /\ x.e = y.e

\* x * y
PyMul(x, y) ==
    LET g1 == GCD(x.n, y.d)
        g2 == GCD(y.n, x.d)
    IN  IF x.n = 0 \/ y.n = 0 THEN Num(x.int /\ y.int, 0, 1, 0)
        ELSE Num(x.int /\ y.int, (x.n \div g1) * (y.n \div g2),
                 (x.d \div g2) * (y.d \div g1), x.e + y.e)

\* x / y for y # 0: floor division of two ints, real division otherwise.
PyDiv(x, y) ==
    IF x.int /\ y.int THEN PyInt(IntVal(x) \div IntVal(y))
    ELSE PyMul(float(x), [int |-> FALSE, n |-> y.d, d |-> y.n, e |-> 0 - y.e])

\* The quotient of the reals x and y, whatever their Python types.
RealDiv(x, y) == PyDiv(float(x), float(y))

\* x - y for x >= y.
PySub(x, y) ==
    LET e == IF x.e < y.e THEN x.e ELSE y.e
    IN  Num(x.int /\ y.int,
            x.n * Pow10(x.e - e) * y.d - y.n * Pow10(y.e - e) * x.d,
            x.d * y.d, e)

\* The integer square root of a perfect square.
ISqrt(n) == CHOOSE r \in 0..n : r * r = n

\* Long division: k more digits of r / d appended to the quotient q.
RECURSIVE LongDiv(_, _, _, _)
LongDiv(q, r, d, k) ==
    IF k = 0 THEN q
    ELSE LongDiv(q * 10 + (r * 10) \div d, (r * 10) % d, d, k - 1)

\* The integer part of n * 10^k / d.
FloorScaled(n, d, k) == LongDiv(n \div d, n % d, d, k)

\* x rounded to the given number of decimals, times 10^decimals.
Rounded(x, decimals) ==
    LET k == x.e + decimals + 1
    IN  ((IF k >= 0 THEN FloorScaled(x.n, x.d, k)
          ELSE x.n \div (x.d * Pow10(0 - k))) + 5) \div 10

\* math.pow(x, y) for the exponents do_bqart uses.  0.5: the square root,
\* exact on the squares the model's areas give.  0.31: exact at 0 and 1;
\* kept to two decimals around 0.1, where x ** 0.31 runs from 0.4890 (at
\* 0.0995) to 0.4905 (at 0.1005), 0.49 to two decimals.
math_pow(x, y) ==
    IF NumEq(y, PyFloat(5, -1))
    THEN Num(FALSE, ISqrt(x.n * Pow10(x.e % 2)), ISqrt(x.d), x.e \div 2)
    ELSE IF x.n = 0 THEN PyFloat(0, 0)
    ELSE IF NumEq(x, PyInt(1)) THEN PyFloat(1, 0)
    ELSE IF Rounded(x, 3) = 100 THEN PyFloat(49, -2)
    ELSE "<not modelled>"

(***************************************************************************)
(* The configuration file (yaml_config) and the data sets it names.        *)
(***************************************************************************)
root == "r"
project_name == "proj"
output_path == join(root, "Output")
original_dem == join(root, "dem.tif")
pour_points_path == join(root, "pp.shp")
fault_path == join(root, "faults.shp")
uplift_mm_yr == 1
\* The names of config['climates'].
Scenarios == {"s1", "s2"}
\* 't' and 'p', the data types of the climate cache.
DataTypes == {"t", "p"}

\* The three sub-commands of GISAppController and the flags they set.
Commands == {"default", "process_watersheds", "calculate_bqart"}

\* The rows of the fault data set: FID -> attributes (get_fault_data).
faultlines == (0 :> [name |-> "f0", slip_min |-> 1, slip_max |-> 2,
                     age_min |-> 0, age_max |-> 1, sense |-> "n"])

\* The zone ids of the watershed raster (VALUE of the zonal tables).
Zones == {1, 2}

(***************************************************************************)
(* Names of files and directories.                                         *)
(***************************************************************************)
\* get_time_string at clock value n: year_month_day_hour_minute_second.
get_time_string(n) == "2015_1_29_15_14_" \o ToString(n)

last_run_path == join(root, "last_run.yml")
HydroFile(batch) == join(batch, "hydro_paths.yml")
WatershedFile(wsdir) == join(wsdir, "watershed_paths.yml")
WatershedCalcs(batch) == join(batch, "watershed_calcs")
WatershedRaster(wsdir) == join(wsdir, project_name \o "_watersheds.tif")
IntersectData(batch) == join(batch, project_name \o "_intersect_data.csv")
ClimateCache(wsdir) == join(wsdir, "climate_cache")

\* The names a GISbatch gives to the outputs of the seven Hydrology steps,
\* in the order hydro_workflow calls them, with the manifest key of each.
HydroOutputs ==
    << <<"fill_path", "_fill.tif">>, <<"flow_path", "_f_dir.tif">>,
       <<"flow_acc_path", "_f_acc.tif">>, <<"stream_net_path", "_net.tif">>,
       <<"null_path", "_net_null.tif">>, <<"s_ord_path", "_s_order.tif">>,
       <<"vector_streams", "_streams.shp">> >>

HydroOutputPath(batch, i) == join(batch, project_name \o HydroOutputs[i][2])

\* The dict hydro_workflow dumps into hydro_paths.yml and returns.
HydroPathsDict(batch) ==
    [k \in {HydroOutputs[i][1] : i \in DOMAIN HydroOutputs}
           \cup {"fault_data", "fault_data_meta", "uplift_rate"} |->
        IF k = "fault_data" THEN ""
        ELSE IF k = "fault_data_meta" THEN ""
        ELSE IF k = "uplift_rate" THEN uplift_mm_yr
        ELSE HydroOutputPath(batch,
                 CHOOSE i \in DOMAIN HydroOutputs : HydroOutputs[i][1] = k)]

\* A dict of the two keys of the Fault stage alone.
FaultKeysOnly(hp, fault_data, fault_meta_data) ==
    [k \in {"fault_data", "fault_meta_data"} |->
        IF k = "fault_data" THEN fault_data ELSE fault_meta_data]

\* The dict fault_workflow dumps into hydro_paths.yml: the dict it was given
\* with fault_data and fault_meta_data assigned.
FaultPathsDict(hp, fault_data, fault_meta_data) ==
    DictSet(DictSet(hp, "fault_data", fault_data),
            "fault_meta_data", fault_meta_data)

\* The dict watershed_workflow dumps into watershed_paths.yml.
WatershedPathsDict(wsdir) ==
    [pour_points |-> join(wsdir, project_name \o "_snap_ppoints.tif"),
     watersheds  |-> WatershedRaster(wsdir)]

\* The rows extract_intersect_positions writes: the header, then one row
\* (id, fault, distance) per correlated pour point.
IntersectRows(ids) ==
    {<<"id", "fault", "distance">>} \cup {<<ToString(z), "0", "5">> : z \in ids}

(***************************************************************************)
(* Batches that earlier sessions left under the output root.  The skip     *)
(* modes take them as their input: a hydrology batch B0 with the manifest  *)
(* its stages wrote, and under it a watershed batch W0.  The configured    *)
(* pour-points file does not exist and the fault data set does, the case   *)
(* in which pour points come from the Fault stage.                         *)
(***************************************************************************)
B0 == join(output_path, get_time_string(0))
W0 == join(WatershedCalcs(B0), get_time_string(1))
\* A path to a file that does not exist, as an operator may type it.
NoSuchFile == join(root, "nosuch")

VARIABLES
    \* ---- the file system ----
    dirs,       \* the directories that exist
    yml,        \* YAML files: path -> text
    tif,        \* rasters and feature classes: path -> content; a climate
                \* raster is identified by the run that wrote it, a terrain
                \* output, a function of the DEM alone, by 0
    tables,     \* zonal statistics tables: path -> [zones, value]
    csv,        \* CSV files: path -> rows
    now,        \* the clock get_time_string reads
    \* ---- the run in progress ----
    runNo,      \* number of runs started
    pc,         \* position in the script
    err,        \* the exception that ended the run
    skip_to_watersheds, skip_to_discharge,
    pargs_batch,
    hydro_batch, watershed_batch,
    batch_path,             \* gbatch.batch_path
    hydro_file_path, hydro_paths, h_dir,
    watershed_directory, watershed_raster,
    climate_scenario, climate_batch_path,
    precip_cache_check, temp_cache_check, precip_clip, temp_clip,
    step,       \* number of Hydrology steps done
    prompts,    \* number of prompts answered with a missing file
    failures,   \* number of calls of the terrain analysis service that failed
    \* ---- what the run did (history) ----
    stages,     \* the stages started in this run, in order
    finished,   \* the stages that ran to their end in this run
    invoked,    \* average_rasters and clip_raster calls of this run
    opened,     \* files opened for reading in this run
    cacheAtCheck, \* data types whose clip existed when the cache was checked
    built,      \* <<wsdir, scenario, data type>> -> path clip_raster returned
    prev,       \* summary of the run before this one
    \* ---- a call of do_bqart followed through its zone loop ----
    args,       \* its arguments: the three zonal tables (zone -> row), the
                \* fault data path, the fault metadata, the uplift rate
    dpc,        \* position in do_bqart
    derr,       \* the exception that left do_bqart
    todo,       \* the keys the for loop has still to visit
    qs_rows     \* the rows appended so far

fsvars == <<dirs, yml, tif, tables, csv>>
cfgvars == <<skip_to_watersheds, skip_to_discharge, pargs_batch,
             hydro_batch, watershed_batch>>
hydrovars == <<batch_path, hydro_file_path, hydro_paths, h_dir>>
wsvars == <<watershed_directory, watershed_raster>>
bqvars == <<climate_scenario, climate_batch_path, precip_cache_check,
            temp_cache_check, precip_clip, temp_clip>>
histvars == <<stages, finished, invoked, opened, cacheAtCheck, built, prev>>
scriptvars == <<fsvars, now, runNo, pc, err, cfgvars, hydrovars, wsvars,
                bqvars, step, prompts, failures, histvars>>
dbvars == <<args, dpc, derr, todo, qs_rows>>
vars == <<scriptvars, dbvars>>

\* Positions at which a run has ended: the script fell through to its
\* finally clause ("done", "aborted" after a caught OSError) or an
\* exception left the script ("crashed").
Ended == {"done", "aborted", "crashed"}

\* os.path.dirname(os.path.realpath(path)) of <dir>/hydro_paths.yml.
dirname(path) ==
    IF \E d \in dirs : HydroFile(d) = path
    THEN CHOOSE d \in dirs : HydroFile(d) = path
    ELSE Undef

\* The sub-directories glob("*") finds in a directory of batches.
BatchesIn(parent) == {d \in dirs : \E n \in 0..now : d = join(parent, get_time_string(n))}

\* The run-local names before the script has assigned any of them.
FreshRun ==
    /\ err = "" /\ step = 0 /\ prompts = 0
    /\ batch_path = Undef /\ hydro_file_path = Undef
    /\ hydro_paths = EmptyDict /\ h_dir = Undef
    /\ watershed_directory = Undef /\ watershed_raster = Undef
    /\ climate_scenario = Undef /\ climate_batch_path = Undef
    /\ precip_cache_check = Undef /\ temp_cache_check = Undef
    /\ precip_clip = Undef /\ temp_clip = Undef
    /\ stages = <<>> /\ finished = {} /\ invoked = {}
    /\ cacheAtCheck = {}

(***************************************************************************)
(* The state before the first run: the configured inputs, and the batch    *)
(* B0 as a Hydrology stage (HydroPathsDict), possibly followed by a Fault  *)
(* stage (FaultPathsDict), left it; the watershed batch W0 either as a     *)
(* Watershed stage left it (raster and watershed_paths.yml) or as          *)
(* setup_watershed_batch alone left it (a directory without them).         *)
(***************************************************************************)
InitWith(faultRan, ids, wsDone) ==
      /\ dirs = {root, output_path, B0, WatershedCalcs(B0), W0}
      /\ yml = (HydroFile(B0) :>
                  yaml_dump(IF faultRan
                            THEN FaultPathsDict(HydroPathsDict(B0),
                                                IntersectData(B0), faultlines)
                            ELSE HydroPathsDict(B0)))
               @@ (IF wsDone
                   THEN WatershedFile(W0) :> yaml_dump(WatershedPathsDict(W0))
                   ELSE EmptyDict)
      /\ tif = [f \in {original_dem, fault_path}
                      \cup {HydroOutputPath(B0, i) : i \in DOMAIN HydroOutputs}
                      \cup (IF wsDone THEN {WatershedRaster(W0)} ELSE {})
                  |-> 0]
      /\ csv = IF faultRan THEN IntersectData(B0) :> IntersectRows(ids)
               ELSE EmptyDict
      /\ tables = EmptyDict
      /\ now = 2
      /\ runNo = 0 /\ failures = 0
      /\ pc = "idle"
      /\ skip_to_watersheds = 0 /\ skip_to_discharge = 0
      /\ pargs_batch = None
      /\ hydro_batch = False /\ watershed_batch = False
      /\ FreshRun
      /\ opened = {}
      /\ built = EmptyDict
      /\ prev = [ws |-> Undef, scenario |-> Undef, done |-> FALSE, invoked |-> {}]

\* do_bqart is not being followed.
NoCall ==
    /\ args = EmptyDict /\ dpc = "idle" /\ derr = ""
    /\ todo = <<>> /\ qs_rows = <<>>

Init ==
    \E faultRan \in BOOLEAN, ids \in {Zones, {1}}, wsDone \in BOOLEAN :
      /\ faultRan \/ ids = Zones
      /\ InitWith(faultRan, ids, wsDone)
      /\ NoCall

(***************************************************************************)
(* The Last-Run Record.                                                    *)
(***************************************************************************)
\* load_last_run(root): the mapping of last_run.yml, or an empty mapping
\* standing for False when the file does not exist.
load_last_run(files) ==
    IF last_run_path \in DOMAIN files THEN yaml_load(files[last_run_path])
    ELSE EmptyDict

\* The YAML files after a record of the one key is written.
write_last_run_afresh(files, key, val) ==
    [f \in DOMAIN files \cup {last_run_path} |->
        IF f = last_run_path THEN yaml_dump(DictSet(EmptyDict, key, val))
        ELSE files[f]]

\* save_last_run(root, key, val): the YAML files after the call.
save_last_run(files, key, val) ==
    LET last_run == IF last_run_path \in DOMAIN files
                    THEN yaml_load(files[last_run_path])
                    ELSE EmptyDict
    IN  [f \in DOMAIN files \cup {last_run_path} |->
            IF f = last_run_path THEN yaml_dump(DictSet(last_run, key, val))
            ELSE files[f]]

\* The fields of prev a run leaves when it ends or is followed by another.
RunSummary ==
    [ws |-> watershed_directory, scenario |-> climate_scenario,
     done |-> (pc = "done"), invoked |-> invoked]

(***************************************************************************)
(* Lines 852-875: a run of the script starts.  The controller sets the     *)
(* skip flags for the sub-command, the configuration is loaded, and the    *)
(* operator may take hydro_batch and watershed_batch from the Last-Run     *)
(* Record.                                                                 *)
(***************************************************************************)
Launch ==
    /\ pc \in {"idle"} \cup Ended
    /\ runNo < MaxRuns
    /\ \E cmd \in Commands, b \in {None, B0, NoSuchFile}, answer \in {"y", "n"} :
         LET last_settings == load_last_run(yml)
             use == DOMAIN last_settings # {} /\ answer = "y"
         IN
         /\ cmd # "default" => b = None
         /\ skip_to_watersheds' = IF cmd = "default" THEN 0 ELSE 1
         /\ skip_to_discharge' = IF cmd = "calculate_bqart" THEN 1 ELSE 0
         /\ pargs_batch' = b
         /\ hydro_batch' = IF use /\ "hydro_batch" \in DOMAIN last_settings
                           THEN last_settings["hydro_batch"] ELSE False
         /\ watershed_batch' = IF use /\ "watershed_batch" \in DOMAIN last_settings
                               THEN last_settings["watershed_batch"] ELSE False
    /\ runNo' = runNo + 1
    /\ pc' = "branch"
    /\ prev' = RunSummary
    /\ err' = "" /\ step' = 0 /\ prompts' = 0
    /\ batch_path' = Undef /\ hydro_file_path' = Undef
    /\ hydro_paths' = EmptyDict /\ h_dir' = Undef
    /\ watershed_directory' = Undef /\ watershed_raster' = Undef
    /\ climate_scenario' = Undef /\ climate_batch_path' = Undef
    /\ precip_cache_check' = Undef /\ temp_cache_check' = Undef
    /\ precip_clip' = Undef /\ temp_clip' = Undef
    /\ stages' = <<>> /\ finished' = {} /\ invoked' = {}
    /\ cacheAtCheck' = {}
    /\ opened' = IF last_run_path \in DOMAIN yml THEN {last_run_path} ELSE {}
    /\ UNCHANGED <<fsvars, now, failures, built>>
    /\ UNCHANGED dbvars

\* An exception other than OSError and IOError leaves the script.
Crash(e) == pc' = "crashed" /\ err' = e

(***************************************************************************)
(* Full mode, lines 877-881.                                               *)
(***************************************************************************)
\* Line 879: GISbatch(yaml_config); set_workspace (lines 123-144) makes a new
\* batch directory named by the time, or takes the directory given with -b.
FullNewBatch ==
    /\ pc = "branch" /\ skip_to_discharge = 0 /\ skip_to_watersheds = 0
    /\ IF pargs_batch = None
       THEN LET output_batch_path == join(output_path, get_time_string(now))
            IN /\ dirs' = dirs \cup {output_batch_path}
               /\ tif' = DictSet(tif, join(output_batch_path, "dem.tif"), 0)
               /\ now' = now + 1
               /\ batch_path' = output_batch_path
               /\ pc' = "hydro" /\ err' = err
       ELSE IF pargs_batch \in dirs
       THEN /\ batch_path' = pargs_batch
            /\ pc' = "hydro" /\ err' = err
            /\ UNCHANGED <<dirs, tif, now>>
       ELSE \* output_batch_path is returned without having been assigned
            /\ Crash("UnboundLocalError")
            /\ UNCHANGED <<dirs, tif, now, batch_path>>
    /\ UNCHANGED <<yml, tables, csv, runNo, failures, cfgvars, hydro_file_path,
                   hydro_paths, h_dir, wsvars, bqvars, step, prompts, histvars>>
    /\ UNCHANGED dbvars

\* Lines 150-169: the next of the seven terrain operations of hydro_workflow
\* saves its output in the batch directory.
HydroStep ==
    /\ pc = "hydro" /\ step < Len(HydroOutputs)
    /\ tif' = DictSet(tif, HydroOutputPath(batch_path, step + 1), 0)
    /\ step' = step + 1
    /\ stages' = IF step = 0 THEN Append(stages, "HYDROLOGY") ELSE stages
    /\ UNCHANGED <<dirs, yml, tables, csv, now, runNo, failures, pc, err, cfgvars,
                   hydrovars, wsvars, bqvars, prompts, finished, invoked,
                   opened, cacheAtCheck, built, prev>>
    /\ UNCHANGED dbvars

\* Lines 172-188: hydro_workflow writes hydro_paths.yml and returns the dict.
HydroManifest ==
    /\ pc = "hydro" /\ step = Len(HydroOutputs)
    /\ yml' = DictSet(yml, HydroFile(batch_path),
                      yaml_dump(HydroPathsDict(batch_path)))
    /\ hydro_paths' = HydroPathsDict(batch_path)
    /\ finished' = finished \cup {"HYDROLOGY"}
    /\ pc' = "save_full"
    /\ UNCHANGED <<dirs, tif, tables, csv, now, runNo, failures, err, cfgvars,
                   batch_path, hydro_file_path, h_dir, wsvars, bqvars, step,
                   prompts, stages, invoked, opened, cacheAtCheck, built, prev>>
    /\ UNCHANGED dbvars

\* Line 881: save_last_run(root, 'hydro_batch', dirname(realpath(
\* hydro_file_path))).  The full-mode branch never assigns hydro_file_path,
\* so evaluating the argument raises NameError.
FullSaveLastRun ==
    /\ pc = "save_full"
    /\ IF hydro_file_path = Undef
       THEN Crash("NameError") /\ yml' = yml
       ELSE /\ yml' = save_last_run(yml, "hydro_batch", dirname(hydro_file_path))
            /\ pc' = "pour_points" /\ err' = err
    /\ UNCHANGED <<dirs, tif, tables, csv, now, runNo, failures, cfgvars, hydrovars,
                   wsvars, bqvars, step, prompts, histvars>>
    /\ UNCHANGED dbvars

(***************************************************************************)
(* The skip modes locate and load a Hydrology manifest: lines 885-911 for  *)
(* process_watersheds, the same code at lines 944-973 for calculate_bqart. *)
(***************************************************************************)
\* Lines 885-894 and 947-956: the batch of the Last-Run Record, or one the
\* operator picks among the batches under <root>/Output.
LocateHydro ==
    /\ pc = "branch" /\ (skip_to_discharge = 1 \/ skip_to_watersheds = 1)
    /\ IF Truthy(hydro_batch)
       THEN batch_path' = hydro_batch
       ELSE \E tchoice \in BatchesIn(join(root, "Output")) : batch_path' = tchoice
    /\ hydro_file_path' = HydroFile(batch_path')
    /\ pc' = "load"
    /\ UNCHANGED <<fsvars, now, runNo, failures, err, cfgvars, hydro_paths, h_dir,
                   wsvars, bqvars, step, prompts, histvars>>
    /\ UNCHANGED dbvars

\* Lines 896-899 and 958-961: the expected manifest exists and is read.
LoadHydro ==
    /\ pc = "load" /\ hydro_file_path \in DOMAIN yml
    /\ hydro_paths' = yaml_load(yml[hydro_file_path])
    /\ opened' = opened \cup {hydro_file_path}
    /\ pc' = "save_hydro"
    /\ UNCHANGED <<fsvars, now, runNo, failures, err, cfgvars, batch_path,
                   hydro_file_path, h_dir, wsvars, bqvars, step, prompts,
                   stages, finished, invoked, cacheAtCheck, built, prev>>
    /\ UNCHANGED dbvars

\* Lines 900-911 and 962-973: the expected manifest is missing; the operator is
\* asked for a path until one that exists is given, and that file is read.
\* hydro_file_path keeps its value.
PromptHydro ==
    /\ pc = "load" /\ hydro_file_path \notin DOMAIN yml
    /\ \E input \in {HydroFile(d) : d \in dirs} \cup {NoSuchFile} :
         IF input \in DOMAIN yml
         THEN /\ hydro_paths' = yaml_load(yml[input])
              /\ opened' = opened \cup {input}
              /\ pc' = "save_hydro"
              /\ prompts' = prompts
         ELSE /\ prompts < MaxPrompts
              /\ prompts' = prompts + 1
              /\ UNCHANGED <<hydro_paths, opened, pc>>
    /\ UNCHANGED <<fsvars, now, runNo, failures, err, cfgvars, batch_path,
                   hydro_file_path, h_dir, wsvars, bqvars, step,
                   stages, finished, invoked, cacheAtCheck, built, prev>>
    /\ UNCHANGED dbvars

\* Line 913: gbatch.save_last_run(...).  save_last_run is a function of the
\* module, not a method of GISbatch: the attribute lookup raises
\* AttributeError before anything is saved.
WsSaveLastRun ==
    /\ pc = "save_hydro" /\ skip_to_discharge = 0
    /\ Crash("AttributeError")
    /\ UNCHANGED <<fsvars, now, runNo, failures, cfgvars, hydrovars, wsvars, bqvars,
                   step, prompts, histvars>>
    /\ UNCHANGED dbvars

\* Lines 975-976: h_dir is the directory of hydro_file_path; it is saved as
\* hydro_batch in the Last-Run Record.
BqSaveLastRun ==
    /\ pc = "save_hydro" /\ skip_to_discharge = 1
    /\ h_dir' = dirname(hydro_file_path)
    /\ yml' = save_last_run(yml, "hydro_batch", h_dir')
    /\ pc' = "pick_watershed"
    /\ UNCHANGED <<dirs, tif, tables, csv, now, runNo, failures, err, cfgvars,
                   batch_path, hydro_file_path, hydro_paths, wsvars, bqvars,
                   step, prompts, histvars>>
    /\ UNCHANGED dbvars

\* Lines 978-992: the watershed batch of the Last-Run Record, or one the
\* operator picks under <h_dir>/watershed_calcs (saved as watershed_batch).
\* The raster is named by convention; watershed_paths.yml is not opened.
PickWatershed ==
    /\ pc = "pick_watershed"
    /\ IF Truthy(watershed_batch)
       THEN /\ watershed_directory' = watershed_batch
            /\ watershed_raster' = WatershedRaster(watershed_batch)
            /\ yml' = yml
       ELSE /\ WatershedCalcs(h_dir) \in dirs
            /\ \E tchoice \in BatchesIn(WatershedCalcs(h_dir)) :
                 /\ watershed_raster' = WatershedRaster(tchoice)
                 /\ watershed_directory' = tchoice
                 /\ yml' = save_last_run(yml, "watershed_batch", tchoice)
    /\ pc' = "scenario"
    /\ UNCHANGED <<dirs, tif, tables, csv, now, runNo, failures, err, cfgvars,
                   hydrovars, bqvars, step, prompts, histvars>>
    /\ UNCHANGED dbvars

\* Line 809 under line 986: os.chdir on a watershed_calcs directory that does
\* not exist raises OSError, which lines 1011-1013 catch: the run ends.
PickWatershedFails ==
    /\ pc = "pick_watershed"
    /\ ~Truthy(watershed_batch)
    /\ WatershedCalcs(h_dir) \notin dirs
    /\ pc' = "aborted" /\ err' = "OSError"
    /\ UNCHANGED <<fsvars, now, runNo, failures, cfgvars, hydrovars, wsvars, bqvars,
                   step, prompts, histvars>>
    /\ UNCHANGED dbvars

\* Lines 994-1005: the operator picks one of the configured climate scenarios.
PickScenario ==
    /\ pc = "scenario"
    /\ \E input \in Scenarios : climate_scenario' = input
    /\ pc' = "bqart"
    /\ UNCHANGED <<fsvars, now, runNo, failures, err, cfgvars, hydrovars, wsvars,
                   climate_batch_path, precip_cache_check, temp_cache_check,
                   precip_clip, temp_clip, step, prompts, histvars>>
    /\ UNCHANGED dbvars

(***************************************************************************)
(* The BQART stage: bqart_workflow, lines 267-319.                         *)
(***************************************************************************)
\* Lines 285-286, 298-299 and 569: the names of the cache files.
combined_name(datatype, scenario) == datatype \o "_" \o scenario \o "_all.tif"
\* A clip name that leaves the scenario out.
clip_name_without_scenario(datatype, scenario) == datatype \o "_clip.tif"
clip_name(datatype, scenario) == datatype \o "_" \o scenario \o "_clip.tif"

\* check_climate_cache: the path of the clipped raster when it is a file,
\* else False.
check_climate_cache(watershed_dir, scenario, datatype) ==
    LET raster_cache_path ==
            join(ClimateCache(watershed_dir), clip_name(datatype, scenario))
    IN  IF raster_cache_path \in DOMAIN tif THEN raster_cache_path ELSE False

\* The data type whose cache file decides whether precipitation is taken
\* from the cache (line 276), and the one that decides for temperature
\* (line 277).
PrecipCheckType == "t"
TempCheckType == "p"

\* Lines 270-277: the climate batch directory and the cache directory are
\* made, then the cache is checked for both data types.
BqartBegin ==
    /\ pc = "bqart"
    /\ stages' = Append(stages, "BQART")
    /\ climate_batch_path' =
           join(join(watershed_directory, "climate_calcs"), get_time_string(now))
    /\ now' = now + 1
    /\ dirs' = dirs \cup {watershed_directory,
                           join(watershed_directory, "climate_calcs"),
                           climate_batch_path',
                           ClimateCache(watershed_directory)}
    /\ precip_cache_check' =
           check_climate_cache(watershed_directory, climate_scenario, PrecipCheckType)
    /\ temp_cache_check' =
           check_climate_cache(watershed_directory, climate_scenario, TempCheckType)
    /\ cacheAtCheck' =
           {d \in DataTypes :
              Truthy(check_climate_cache(watershed_directory, climate_scenario, d))}
    /\ pc' = "precip"
    /\ UNCHANGED <<yml, tif, tables, csv, runNo, failures, err, cfgvars, hydrovars,
                   wsvars, climate_scenario, precip_clip, temp_clip, step,
                   prompts, finished, invoked, opened, built, prev>>
    /\ UNCHANGED dbvars

\* average_rasters then clip_raster for one data type (lines 284-291 and
\* 297-305): the combined raster is saved in the cache, then clipped to the
\* extent of the watershed raster; the clip fails when that raster is missing.
\* The result is the files after the calls and the path clip_raster returned
\* (Undef when it raised).
\* A clip that is saved over the watershed raster instead of in the cache.
BuildCacheOverRaster(datatype) ==
    LET cache == ClimateCache(watershed_directory)
        combined == join(cache, combined_name(datatype, climate_scenario))
        averaged == DictSet(tif, combined, runNo)
    IN  IF watershed_raster \in DOMAIN tif
        THEN [files |-> DictSet(averaged, watershed_raster, runNo),
              path |-> watershed_raster]
        ELSE [files |-> averaged, path |-> Undef]
BuildCache(datatype) ==
    LET cache == ClimateCache(watershed_directory)
        combined == join(cache, combined_name(datatype, climate_scenario))
        clip == join(cache, clip_name(datatype, climate_scenario))
        averaged == DictSet(tif, combined, runNo)
    IN  IF watershed_raster \in DOMAIN tif
        THEN [files |-> DictSet(averaged, clip, runNo), path |-> clip]
        ELSE [files |-> averaged, path |-> Undef]

\* The value precip_clip takes when the precipitation cache is found (line 281).
PrecipFromCache == temp_cache_check

\* Lines 279-291: precipitation.
BqartPrecip ==
    /\ pc = "precip"
    /\ IF Truthy(precip_cache_check)
       THEN /\ precip_clip' = PrecipFromCache
            /\ pc' = "temp" /\ err' = err
            /\ UNCHANGED <<tif, invoked, built>>
       ELSE LET b == BuildCache("p") IN
            /\ tif' = b.files
            /\ invoked' = invoked \cup {<<"average", "p">>, <<"clip", "p">>}
            /\ IF b.path = Undef
               THEN Crash("ExecuteError") /\ UNCHANGED <<precip_clip, built>>
               ELSE /\ precip_clip' = b.path
                    /\ built' = DictSet(built,
                           <<watershed_directory, climate_scenario, "p">>, b.path)
                    /\ pc' = "temp" /\ err' = err
    /\ UNCHANGED <<dirs, yml, tables, csv, now, runNo, failures, cfgvars, hydrovars,
                   wsvars, climate_scenario, climate_batch_path,
                   precip_cache_check, temp_cache_check, temp_clip, step,
                   prompts, stages, finished, opened, cacheAtCheck, prev>>
    /\ UNCHANGED dbvars

\* The value temp_clip takes when the temperature cache is found (line 295).
TempFromCache == temp_cache_check

\* Lines 293-305: temperature.
BqartTemp ==
    /\ pc = "temp"
    /\ IF Truthy(temp_cache_check)
       THEN /\ temp_clip' = TempFromCache
            /\ pc' = "zonestats" /\ err' = err
            /\ UNCHANGED <<tif, invoked, built>>
       ELSE LET b == BuildCache("t") IN
            /\ tif' = b.files
            /\ invoked' = invoked \cup {<<"average", "t">>, <<"clip", "t">>}
            /\ IF b.path = Undef
               THEN Crash("ExecuteError") /\ UNCHANGED <<temp_clip, built>>
               ELSE /\ temp_clip' = b.path
                    /\ built' = DictSet(built,
                           <<watershed_directory, climate_scenario, "t">>, b.path)
                    /\ pc' = "zonestats" /\ err' = err
    /\ UNCHANGED <<dirs, yml, tables, csv, now, runNo, failures, cfgvars, hydrovars,
                   wsvars, climate_scenario, climate_batch_path,
                   precip_cache_check, temp_cache_check, precip_clip, step,
                   prompts, stages, finished, opened, cacheAtCheck, prev>>
    /\ UNCHANGED dbvars

\* zone_statistics (lines 604-608) can compute a table when the zone raster
\* and the value raster both exist.
ZoneStatsOk(value_raster) ==
    /\ watershed_raster \in DOMAIN tif
    /\ Truthy(value_raster) /\ value_raster \in DOMAIN tif

\* Lines 309-312: the zonal statistics of temperature, precipitation and
\* elevation, in that order; the first that fails ends the run.
BqartZoneStats ==
    /\ pc = "zonestats"
    /\ LET tz == join(climate_batch_path, "temp_data")
           pz == join(climate_batch_path, "precip_data")
           ez == join(climate_batch_path, "elev_data")
           row(v) == [zones |-> watershed_raster, value |-> v]
           t1 == IF ZoneStatsOk(temp_clip)
                 THEN DictSet(tables, tz, row(temp_clip)) ELSE tables
           t2 == IF ZoneStatsOk(temp_clip) /\ ZoneStatsOk(precip_clip)
                 THEN DictSet(t1, pz, row(precip_clip)) ELSE t1
           t3 == IF ZoneStatsOk(temp_clip) /\ ZoneStatsOk(precip_clip)
                    /\ ZoneStatsOk(original_dem)
                 THEN DictSet(t2, ez, row(original_dem)) ELSE t2
       IN /\ tables' = t3
          /\ IF ez \in DOMAIN t3
             THEN pc' = "calc" /\ err' = err
             ELSE Crash("ExecuteError")
    /\ UNCHANGED <<dirs, yml, tif, csv, now, runNo, failures, cfgvars, hydrovars,
                   wsvars, bqvars, step, prompts, stages, finished, invoked,
                   opened, cacheAtCheck, built, prev>>
    /\ UNCHANGED dbvars

\* A call of the terrain analysis service raises (arcpy's ExecuteError):
\* the run ends where it is.
ExternalCallFails ==
    /\ \/ pc = "hydro" /\ step < Len(HydroOutputs)
       \/ pc = "precip" /\ ~Truthy(precip_cache_check)
       \/ pc = "temp" /\ ~Truthy(temp_cache_check)
       \/ pc = "zonestats"
    /\ failures < MaxFailures
    /\ failures' = failures + 1
    /\ Crash("ExecuteError")
    /\ UNCHANGED <<fsvars, now, runNo, cfgvars, hydrovars, wsvars, bqvars,
                   step, prompts, histvars>>
    /\ UNCHANGED dbvars

(***************************************************************************)
(* do_bqart, lines 611-758, as far as its outcome depends on the fault     *)
(* correlation table.                                                      *)
(***************************************************************************)
\* Lines 637-647: fault_data_output, row[0] -> [row[1], row[2]] for every
\* row of the CSV file (its header row included), or {} when fault_data_path
\* is empty or is not a file.
FaultDataOutput(fault_data_path) ==
    IF Truthy(fault_data_path) /\ fault_data_path \in DOMAIN csv
    THEN [k \in {r[1] : r \in csv[fault_data_path]} |->
            LET r == CHOOSE r \in csv[fault_data_path] : r[1] = k
            IN  <<r[2], r[3]>>]
    ELSE EmptyDict

\* Lines 728-754 for zone k: the exception the tectonic term raises, "" when
\* it raises none.  With a correlation table the zone's entry and its fault's
\* metadata are looked up; without one the else branch reads Area_square_m,
\* a name that is never assigned.
TectonicError(k, fault_data_output, fault_meta_data) ==
    IF DOMAIN fault_data_output # {}
    THEN IF ToString(k) \notin DOMAIN fault_data_output THEN "KeyError"
         ELSE IF StrToInt(fault_data_output[ToString(k)][1])
                     \notin DOMAIN fault_meta_data THEN "KeyError"
         ELSE ""
    ELSE "NameError"

\* Lines 731-748 for zone k: the fields appended in the fault case.
TectonicFields(k, fault_data_output, fault_meta_data) ==
    LET fault_id == fault_data_output[ToString(k)][1]
    IN  <<fault_meta_data[StrToInt(fault_id)].slip_max, fault_id,
          fault_meta_data[StrToInt(fault_id)].name,
          fault_data_output[ToString(k)][2]>>

\* do_bqart: the exception that ends the loop over the zones ("" for none)
\* and the rows it returns.
do_bqart(zones, fault_data_path, fault_meta_data) ==
    LET fault_data_output == FaultDataOutput(fault_data_path)
        bad == {k \in zones :
                  TectonicError(k, fault_data_output, fault_meta_data) # ""}
    IN  IF bad # {}
        THEN [error |-> TectonicError(CHOOSE k \in bad : \A j \in bad : k <= j,
                                      fault_data_output, fault_meta_data),
              rows |-> {}]
        ELSE [error |-> "",
              rows |-> {<<k>> \o TectonicFields(k, fault_data_output,
                                                fault_meta_data) : k \in zones}]

\* The keys of hydro_paths that line 315-317 read.
BqartKeys == {"fault_data", "fault_meta_data", "uplift_rate"}

\* Lines 314-319: do_bqart on the three tables and the fault entries of the
\* Hydrology manifest, then save_data_to_csv.
BqartCalc ==
    /\ pc = "calc"
    /\ IF ~(BqartKeys \subseteq DOMAIN hydro_paths)
       THEN Crash("KeyError") /\ UNCHANGED <<csv, finished>>
       ELSE LET qs_data == do_bqart(Zones, hydro_paths["fault_data"],
                                    hydro_paths["fault_meta_data"])
            IN  IF qs_data.error # ""
                THEN Crash(qs_data.error) /\ UNCHANGED <<csv, finished>>
                ELSE /\ csv' = DictSet(csv, join(climate_batch_path, "qs_data.csv"),
                                       qs_data.rows)
                     /\ finished' = finished \cup {"BQART"}
                     /\ pc' = "done" /\ err' = err
    /\ opened' = IF BqartKeys \subseteq DOMAIN hydro_paths
                    /\ DOMAIN FaultDataOutput(hydro_paths["fault_data"]) # {}
                 THEN opened \cup {hydro_paths["fault_data"]} ELSE opened
    /\ UNCHANGED <<dirs, yml, tif, tables, now, runNo, failures, cfgvars, hydrovars,
                   wsvars, bqvars, step, prompts, stages, invoked,
                   cacheAtCheck, built, prev>>
    /\ UNCHANGED dbvars

(***************************************************************************)
(* do_bqart, lines 611-758, followed through its loop over the zones on    *)
(* zonal tables given as arguments.  ZonalStatisticsAsTable with "DATA"    *)
(* gives a table a row for a zone only where the value raster has data in  *)
(* the zone, so the three tables need not have the same zones.             *)
(***************************************************************************)
\* Lines 617-635: the dicts the three cursors fill.
temps == [k \in DOMAIN args.tz_data |-> args.tz_data[k].MEAN]
precips == [k \in DOMAIN args.pz_data |-> args.pz_data[k].MEAN]
max_reliefs == [k \in DOMAIN args.ez_data |-> args.ez_data[k].MAX]
min_reliefs == [k \in DOMAIN args.ez_data |-> args.ez_data[k].MIN]
areas == [k \in DOMAIN args.ez_data |-> args.ez_data[k].AREA]

\* Lines 681-683 and 706.
density == 2700
omega == PyFloat(6, -4)
B == 1
\* The seconds of a tropical year, 365 d 5 h 48 min 46 s.
SecondsPerTropicalYear == ((365 * 24 + 5) * 60 + 48) * 60 + 46
SecondsPerYear == 60 * 60 * 24 * 365

\* Lines 677-722 for zone k, one definition per assignment.
relief(k) == PySub(max_reliefs[k], min_reliefs[k])
temp(k) == PyDiv(temps[k], PyInt(10))
precip_m(k) == PyDiv(precips[k], float(PyInt(1000)))
relief_km(k) == PyDiv(relief(k), float(PyInt(1000)))
area_km_squared(k) == PyDiv(areas[k], float(PyInt(1000000)))
precip_m3_yr(k) == PyMul(precip_m(k), float(areas[k]))
Qw_s(k) == PyDiv(precip_m3_yr(k), float(PyInt(SecondsPerYear)))
Qw_km_yr(k) ==
    math_pow(PyDiv(PyMul(Qw_s(k), PyInt(31536000)), PyInt(1000000000)),
             PyFloat(31, -2))
A(k) == math_pow(area_km_squared(k), PyFloat(5, -1))
Qs_MT_yr(k) ==
    PyMul(PyMul(PyMul(PyMul(PyMul(omega, PyInt(B)), Qw_km_yr(k)), A(k)),
                relief_km(k)), temp(k))
\* (1000000000/density)*1.3 with the exact quotient.
BulkFactorExact == PyMul(RealDiv(PyInt(1000000000), PyInt(density)), PyFloat(13, -1))
BulkFactor == PyMul(PyDiv(PyInt(1000000000), PyInt(density)), PyFloat(13, -1))
Qs_m3_yr(k) == PyMul(Qs_MT_yr(k), BulkFactor)
Qs_m_yr(k) == PyDiv(Qs_m3_yr(k), float(areas[k]))
Qs_mm_yr(k) == PyMul(Qs_m_yr(k), float(PyInt(1000)))

\* Line 724: the fourteen base fields of the row of zone k.
qs(k) ==
    <<k, precips[k], omega, B, Qw_s(k), Qw_km_yr(k), A(k), relief_km(k),
      temp(k), Qs_MT_yr(k), density, Qs_m3_yr(k), Qs_m_yr(k), Qs_mm_yr(k)>>

\* Line 738: Q_tectonic of the fault case.
Q_tectonic(k, fault_slip_mm_yr) ==
    PyDiv(PyMul(areas[k], PyDiv(PyInt(fault_slip_mm_yr), float(PyInt(1000)))),
          float(PyInt(density)))

\* Lines 677-680: the exception the table lookups of zone k raise.
LookupError(k) ==
    IF k \notin DOMAIN areas \/ k \notin DOMAIN temps THEN "KeyError" ELSE ""

\* The keys of a dict in the order a for loop visits them (small ints are
\* visited in increasing order).
RECURSIVE keys(_)
keys(S) ==
    IF S = {} THEN <<>>
    ELSE LET k == CHOOSE x \in S : \A y \in S : x <= y
         IN  <<k>> \o keys(S \ {k})

\* Lines 613-658: do_bqart is called; the tables are read into the dicts
\* and the loop over precips.keys() is about to start.
DoBqartBegin ==
    /\ dpc = "called"
    /\ todo' = keys(DOMAIN precips)
    /\ qs_rows' = <<>>
    /\ dpc' = "loop"
    /\ UNCHANGED <<args, derr, scriptvars>>

\* Lines 675-756: one turn of the loop.  A lookup that fails, or the
\* tectonic term, raises; otherwise the row of the zone is appended.
DoBqartZone ==
    /\ dpc = "loop" /\ todo # <<>>
    /\ LET k == Head(todo)
           fault_data_output == FaultDataOutput(args.fault_data_path)
           e1 == LookupError(k)
           e2 == TectonicError(k, fault_data_output, args.fault_meta_data)
           f == TectonicFields(k, fault_data_output, args.fault_meta_data)
       IN  IF e1 # "" \/ e2 # ""
           THEN /\ dpc' = "raised"
                /\ derr' = IF e1 # "" THEN e1 ELSE e2
                /\ UNCHANGED <<todo, qs_rows>>
           ELSE /\ qs_rows' = Append(qs_rows,
                                 qs(k) \o <<f[1], Q_tectonic(k, f[1]),
                                            f[2], f[3], f[4]>>)
                /\ todo' = Tail(todo)
                /\ UNCHANGED <<dpc, derr>>
    /\ UNCHANGED <<args, scriptvars>>

\* Line 758: return qs_rows.
DoBqartReturn ==
    /\ dpc = "loop" /\ todo = <<>>
    /\ dpc' = "returned"
    /\ UNCHANGED <<args, derr, todo, qs_rows, scriptvars>>

\* The rows of a zonal table of temperature or precipitation and of the
\* elevation table.  MEAN and AREA are floating point fields.
MeanTable(zs, mean) == [k \in zs |-> [MEAN |-> mean[k]]]
ElevTable(zs) ==
    [k \in zs |-> [MAX |-> PyInt(2000), MIN |-> PyInt(0),
                   AREA |-> PyFloat(1, 8)]]
\* Mean precipitation (mm/yr) and temperature (C x 10) of the zones.
PrecipMeans == {(1 :> PyFloat(1000, 0)) @@ (2 :> PyFloat(10000, 0)),
                (1 :> PyFloat(1000, 0)) @@ (2 :> PyFloat(0, 0))}
TempMeans == {(1 :> PyFloat(200, 0)) @@ (2 :> PyFloat(205, 0))}
ZoneSets == SUBSET Zones \ {{}}

\* do_bqart called on some zonal tables, with the fault correlation file
\* of batch B0 (complete, or without zone 2), no file, or no path.
BqartInit ==
    \E ids \in {Zones, {1}}, pz \in ZoneSets, tz \in ZoneSets, ez \in ZoneSets,
       pm \in PrecipMeans, tm \in TempMeans,
       path \in {IntersectData(B0), NoSuchFile, ""} :
      /\ InitWith(TRUE, ids, TRUE)
      /\ args = [pz_data |-> MeanTable(pz, pm), tz_data |-> MeanTable(tz, tm),
                 ez_data |-> ElevTable(ez),
                 fault_data_path |-> path, fault_meta_data |-> faultlines,
                 uplift_rate |-> uplift_mm_yr]
      /\ dpc = "called" /\ derr = ""
      /\ todo = <<>> /\ qs_rows = <<>>

BqartNext == DoBqartBegin \/ DoBqartZone \/ DoBqartReturn

BqartSpec == BqartInit /\ [][BqartNext]_vars

(***************************************************************************)
(* The stage methods of GISbatch that write the Hydrology manifest, called *)
(* on batch B0: the end of hydro_workflow (lines 172-188, HydroManifest    *)
(* above) and fault_workflow (lines 190-236).                              *)
(***************************************************************************)
\* Fault data sets: FID -> attributes.  The second fault has a name that
\* reads as a number and an empty sense.
faultlines2 ==
    faultlines @@ (1 :> [name |-> "1", slip_min |-> 0, slip_max |-> 3,
                         age_min |-> 0, age_max |-> 2, sense |-> ""])
FaultSets == {[fid \in S |-> faultlines2[fid]] : S \in SUBSET {0, 1}}

\* The files fault_workflow saves in the batch directory before the fault
\* correlation file (lines 416-464).
FaultOutputs ==
    {"_intersects_multipart.shp", "_intersects_singlepart.shp",
     "_dem_no_lowlands.tif", "_intersects_all.shp", "_intersects_above.shp",
     "_fault_routes.shp", "_intersect_events.dbf"}

\* Lines 190-236: fault_workflow(faultlines, hydro_paths).  get_fault_data
\* collects the attributes of the faults, the intersect operations save
\* their outputs, extract_intersect_positions writes the correlation file
\* (and raises NameError at "del row" when there is no event), and the dict
\* it was given, with the two fault keys assigned, replaces hydro_paths.yml.
FaultWorkflow ==
    /\ pc = "fault"
    /\ LET fault_meta_data == args.faultlines
           fault_data == IntersectData(batch_path)
       IN  /\ tif' = [f \in DOMAIN tif \cup
                          {join(batch_path, project_name \o x) : x \in FaultOutputs}
                        |-> 0]
           /\ csv' = DictSet(csv, fault_data, IntersectRows(args.intersect_events))
           /\ stages' = Append(stages, "FAULT")
           /\ IF args.intersect_events = {}
              THEN /\ Crash("NameError")
                   /\ UNCHANGED <<yml, hydro_paths, finished>>
              ELSE /\ hydro_paths' = FaultPathsDict(hydro_paths, fault_data,
                                                    fault_meta_data)
                   /\ yml' = DictSet(yml, HydroFile(batch_path),
                                     yaml_dump(hydro_paths'))
                   /\ finished' = finished \cup {"FAULT"}
                   /\ pc' = "fault_done" /\ err' = err
    /\ UNCHANGED <<dirs, tables, now, runNo, failures, cfgvars, batch_path,
                   hydro_file_path, h_dir, wsvars, bqvars, step, prompts,
                   invoked, opened, cacheAtCheck, built, prev>>
    /\ UNCHANGED dbvars

\* A GISbatch on batch B0, either at the end of the seven Hydrology steps,
\* or about to run fault_workflow on the dict hydro_workflow returned or
\* yaml.load read from the batch's hydro_paths.yml.
StageInit ==
    \E ran \in BOOLEAN, fl0 \in FaultSets, fl \in FaultSets,
       events \in SUBSET Zones, atHydro \in BOOLEAN :
      LET given == IF ran
                   THEN FaultPathsDict(HydroPathsDict(B0), IntersectData(B0), fl0)
                   ELSE HydroPathsDict(B0)
      IN
      /\ ~ran => fl0 = EmptyDict
      /\ atHydro => (~ran /\ fl = EmptyDict /\ events = {})
      /\ dirs = {root, output_path, B0}
      /\ yml = IF atHydro THEN EmptyDict ELSE HydroFile(B0) :> yaml_dump(given)
      /\ tif = [f \in {original_dem, fault_path}
                      \cup {HydroOutputPath(B0, i) : i \in DOMAIN HydroOutputs}
                  |-> 0]
      /\ csv = IF ran THEN IntersectData(B0) :> IntersectRows(Zones)
               ELSE EmptyDict
      /\ tables = EmptyDict
      /\ now = 1
      /\ runNo = 1 /\ failures = 0
      /\ pc = IF atHydro THEN "hydro" ELSE "fault"
      /\ skip_to_watersheds = 0 /\ skip_to_discharge = 0
      /\ pargs_batch = None
      /\ hydro_batch = False /\ watershed_batch = False
      /\ err = "" /\ prompts = 0
      /\ step = IF atHydro THEN Len(HydroOutputs) ELSE 0
      /\ batch_path = B0 /\ hydro_file_path = Undef
      /\ hydro_paths = IF atHydro THEN EmptyDict ELSE yaml_load(yaml_dump(given))
      /\ h_dir = Undef
      /\ watershed_directory = Undef /\ watershed_raster = Undef
      /\ climate_scenario = Undef /\ climate_batch_path = Undef
      /\ precip_cache_check = Undef /\ temp_cache_check = Undef
      /\ precip_clip = Undef /\ temp_clip = Undef
      /\ stages = IF atHydro THEN <<"HYDROLOGY">> ELSE <<>>
      /\ finished = {} /\ invoked = {} /\ cacheAtCheck = {}
      /\ opened = {}
      /\ built = EmptyDict
      /\ prev = [ws |-> Undef, scenario |-> Undef, done |-> FALSE, invoked |-> {}]
      /\ args = IF atHydro THEN EmptyDict
                ELSE [faultlines |-> fl, intersect_events |-> events,
                      hydro_paths |-> hydro_paths]
      /\ dpc = "idle" /\ derr = ""
      /\ todo = <<>> /\ qs_rows = <<>>

StageNext == HydroManifest \/ FaultWorkflow

StageSpec == StageInit /\ [][StageNext]_vars

(***************************************************************************)
(* save_last_run and load_last_run (lines 780-806) called in any order on  *)
(* the Last-Run Record of the project root.  args keeps the key and value  *)
(* of the latest save, the number of saves (up to MaxSaves), the mapping   *)
(* the saves amount to, and what the latest load returned.                 *)
(***************************************************************************)
MaxSaves == 3
LastRunKeys == {"hydro_batch", "watershed_batch"}
\* Values to save: directories, and texts that YAML must quote.
LastRunValues == {B0, W0, "", "1"}

SaveLastRun ==
    /\ pc = "idle" /\ dpc = "last_run"
    /\ \E key \in LastRunKeys, val \in LastRunValues :
         /\ yml' = save_last_run(yml, key, val)
         /\ args' = [key |-> key, val |-> val,
                     saves |-> IF args.saves < MaxSaves THEN args.saves + 1
                               ELSE MaxSaves,
                     record |-> DictSet(args.record, key, val),
                     read |-> FALSE, loaded |-> EmptyDict]
    /\ UNCHANGED <<dirs, tif, tables, csv, now, runNo, pc, err, cfgvars,
                   hydrovars, wsvars, bqvars, step, prompts, failures, histvars>>
    /\ UNCHANGED <<dpc, derr, todo, qs_rows>>

LoadLastRun ==
    /\ pc = "idle" /\ dpc = "last_run"
    /\ ~args.read
    /\ args' = [args EXCEPT !.read = TRUE, !.loaded = load_last_run(yml)]
    /\ UNCHANGED <<scriptvars, dpc, derr, todo, qs_rows>>

\* The project before any record was saved.
LastRunInit ==
    /\ \E faultRan \in BOOLEAN, wsDone \in BOOLEAN :
          InitWith(faultRan, Zones, wsDone)
    /\ args = [key |-> None, val |-> None, saves |-> 0, record |-> EmptyDict,
               read |-> FALSE, loaded |-> EmptyDict]
    /\ dpc = "last_run" /\ derr = ""
    /\ todo = <<>> /\ qs_rows = <<>>

LastRunNext == SaveLastRun \/ LoadLastRun

LastRunSpec == LastRunInit /\ [][LastRunNext]_vars

(***************************************************************************)
(* The specification.                                                      *)
(***************************************************************************)
Next ==
    \/ Launch
    \/ FullNewBatch \/ HydroStep \/ HydroManifest \/ FullSaveLastRun
    \/ LocateHydro \/ LoadHydro \/ PromptHydro
    \/ WsSaveLastRun \/ BqSaveLastRun
    \/ PickWatershed \/ PickWatershedFails \/ PickScenario
    \/ BqartBegin \/ BqartPrecip \/ BqartTemp \/ BqartZoneStats \/ BqartCalc
    \/ ExternalCallFails

Spec == Init /\ [][Next]_vars

(***************************************************************************)
(* Properties.                                                             *)
(***************************************************************************)
Range(seq) == {seq[i] : i \in DOMAIN seq}
Started(stage) == stage \in Range(stages)
FullMode == skip_to_discharge = 0 /\ skip_to_watersheds = 0
SkipToWatershedMode == skip_to_discharge = 0 /\ skip_to_watersheds = 1
SkipToBqartMode == skip_to_discharge = 1
\* No call of the terrain analysis service failed in this run.
ExternalCallsSucceeded == err # "ExecuteError"
\* The run has a Hydrology manifest in hand (returned by hydro_workflow or
\* loaded from a file).
HaveHydroPaths == DOMAIN hydro_paths # {}
\* The Fault stage applies: no pour-points file, and a fault data set that
\* is configured and exists (lines 919-927).
FaultStageApplies ==
    /\ pour_points_path \notin DOMAIN tif
    /\ Truthy(fault_path) /\ fault_path \in DOMAIN tif
\* The cache file of a data type and scenario in a watershed batch, and
\* what it holds (-1 when there is no such file).
ClipPath(w, d, s) == join(ClimateCache(w), clip_name(d, s))
CombinedPath(w, d, s) == join(ClimateCache(w), combined_name(d, s))
Content(path) == IF path \in DOMAIN tif THEN tif[path] ELSE -1

\* C1: a full-mode run whose Hydrology stage ended and whose external calls
\* all succeeded does not fail after Hydrology: when it ends, it has gone
\* through Hydrology, (Fault,) Watershed and BQART to the end of BQART.
C1_FullRunReachesEndOfBqart ==
    (pc \in Ended /\ FullMode /\ "HYDROLOGY" \in finished
        /\ ExternalCallsSucceeded)
    => /\ pc = "done"
       /\ "BQART" \in finished
       /\ stages \in {<<"HYDROLOGY", "WATERSHED", "BQART">>,
                      <<"HYDROLOGY", "FAULT", "WATERSHED", "BQART">>}

\* C2: a process_watersheds run that has loaded a Hydrology manifest skips
\* Hydrology and runs (Fault,) Watershed and BQART to completion.
C2_SkipToWatershedRunsToCompletion ==
    (pc \in Ended /\ SkipToWatershedMode /\ HaveHydroPaths
        /\ ExternalCallsSucceeded)
    => /\ pc = "done"
       /\ "BQART" \in finished
       /\ stages \in {<<"WATERSHED", "BQART">>, <<"FAULT", "WATERSHED", "BQART">>}

\* C3: in calculate_bqart mode the BQART stage starts only after the
\* watershed_paths.yml of the watershed batch in use has been found and
\* read, besides the Hydrology manifest.
C3_BqartAfterWatershedManifestRead ==
    (SkipToBqartMode /\ Started("BQART"))
    => /\ WatershedFile(watershed_directory) \in DOMAIN yml
       /\ WatershedFile(watershed_directory) \in opened
       /\ HaveHydroPaths

\* C4: whenever the BQART stage has started, the Hydrology manifest it was
\* given holds every key the stage reads.
C4_BqartKeysInManifest ==
    Started("BQART") => BqartKeys \subseteq DOMAIN hydro_paths

\* C5: stages follow each other in pipeline order within a run, and when a
\* stage has started the manifest of the stage before it is on disk: the
\* batch's hydro_paths.yml before Fault or Watershed, the watershed batch's
\* watershed_paths.yml (and the batch's hydro_paths.yml) before BQART.
C5_ManifestOnDiskBeforeNextStage ==
    /\ \A i, j \in DOMAIN stages :
          i < j => <<stages[i], stages[j]>> \in
                     {<<"HYDROLOGY", "FAULT">>, <<"HYDROLOGY", "WATERSHED">>,
                      <<"HYDROLOGY", "BQART">>, <<"FAULT", "WATERSHED">>,
                      <<"FAULT", "BQART">>, <<"WATERSHED", "BQART">>}
    /\ (Started("FAULT") \/ Started("WATERSHED"))
          => HydroFile(batch_path) \in DOMAIN yml
    /\ Started("BQART")
          => /\ HydroFile(batch_path) \in DOMAIN yml
             /\ WatershedFile(watershed_directory) \in DOMAIN yml

\* C6: in a run that gets past its Hydrology manifest (full or
\* process_watersheds mode) the Fault stage runs exactly when the Fault
\* stage applies, and the Watershed stage starts only after it when it does.
C6_FaultStageRunsIffItApplies ==
    (pc \in Ended /\ ~SkipToBqartMode /\ HaveHydroPaths
        /\ ExternalCallsSucceeded)
    => /\ Started("FAULT") <=> FaultStageApplies
       /\ (Started("WATERSHED") /\ FaultStageApplies) => "FAULT" \in finished

\* C7: once both cache decisions of a BQART run are taken, averaging and
\* clipping have been called for a data type exactly when that data type's
\* own clip file was absent when the cache was checked.
C7_BuildIffOwnClipAbsent ==
    pc = "zonestats"
    => \A d \in DataTypes :
          ({<<"average", d>>, <<"clip", d>>} \subseteq invoked)
             <=> (d \notin cacheAtCheck)

\* C8: a BQART run that takes both data types from a cache an earlier run
\* built computes the temperature statistics on the path that build returned
\* for temperature and the precipitation statistics on the one it returned
\* for precipitation.
C8_CachedRunReadsOwnClips ==
    (pc \in {"calc", "done"} /\ invoked = {}
        /\ \A d \in DataTypes :
              <<watershed_directory, climate_scenario, d>> \in DOMAIN built)
    => /\ tables[join(climate_batch_path, "temp_data")].value
            = built[<<watershed_directory, climate_scenario, "t">>]
       /\ tables[join(climate_batch_path, "precip_data")].value
            = built[<<watershed_directory, climate_scenario, "p">>]

\* C9: when a BQART run that ran to its end is followed by another for the
\* same watershed batch and scenario, the second calls neither averaging
\* nor clipping.
C9_SecondRunInvokesNoBuild ==
    (pc = "done" /\ prev.done /\ prev.ws = watershed_directory
        /\ prev.scenario = climate_scenario)
    => invoked = {}

\* Distinct (data type, scenario) pairs have distinct clip names.
ClipNamesDistinct ==
    \A d1, d2 \in DataTypes, s1, s2 \in Scenarios :
       <<d1, s1>> # <<d2, s2>> => clip_name(d1, s1) # clip_name(d2, s2)

\* C10: distinct (data type, scenario) pairs name distinct cache files, and
\* no step of a run for scenario s changes, creates or removes a cache file
\* (clipped or combined) of another scenario, in any watershed batch.
C10_OtherScenariosUntouched ==
    [][ /\ ClipNamesDistinct
        /\ \/ tif' = tif
           \/ \A w \in dirs \cup dirs', d \in DataTypes, s \in Scenarios :
                 s # climate_scenario'
                 => /\ Content(ClipPath(w, d, s))' = Content(ClipPath(w, d, s))
                    /\ Content(CombinedPath(w, d, s))'
                          = Content(CombinedPath(w, d, s))
      ]_vars

\* C10, its case: a run for one scenario has built its precipitation clip
\* in a watershed batch whose cache holds a clip of another scenario.
C10_Witness ==
    /\ <<"clip", "p">> \in invoked
    /\ ClipPath(watershed_directory, "p", climate_scenario) \in DOMAIN tif
    /\ \E s \in Scenarios :
          /\ s # climate_scenario
          /\ ClipPath(watershed_directory, "p", s) \in DOMAIN tif

(***************************************************************************)
(* Properties of do_bqart.                                                 *)
(***************************************************************************)
DoBqartEnded == dpc \in {"returned", "raised"}
\* The zone ids of the rows do_bqart has appended, and the row of a zone.
RowIds == {qs_rows[i][1] : i \in DOMAIN qs_rows}
RowOf(k) == qs_rows[CHOOSE i \in DOMAIN qs_rows : qs_rows[i][1] = k]
\* Every zone of the precipitation table is in the other two tables.
TablesComplete == DOMAIN precips \subseteq (DOMAIN temps \cap DOMAIN areas)
\* The fault correlation table do_bqart loads.
FaultTable == FaultDataOutput(args.fault_data_path)
\* There is a correlation table and it has a usable entry for every zone
\* of the precipitation table.
CorrelationComplete ==
    /\ DOMAIN FaultTable # {}
    /\ \A k \in DOMAIN precips :
          TectonicError(k, FaultTable, args.fault_meta_data) = ""

\* C11: a call of do_bqart whose correlation table covers the zones ends
\* with exactly one row per zone of the precipitation table and no row for
\* any other zone.
C11_OneRecordPerPrecipZone ==
    (DoBqartEnded /\ CorrelationComplete)
    => /\ dpc = "returned"
       /\ Len(qs_rows) = Cardinality(DOMAIN precips)
       /\ RowIds = DOMAIN precips

\* C12: with a correlation table that lacks an entry for some zone, and
\* complete zonal tables, do_bqart returns a row for every zone; the row of
\* a zone without an entry carries the uniform-uplift fields (uplift_rate,
\* Q_tectonic) and no fault fields.
C12_UncorrelatedZoneGetsUniformTerm ==
    (DoBqartEnded /\ TablesComplete /\ DOMAIN FaultTable # {})
    => /\ dpc = "returned"
       /\ \A k \in DOMAIN precips :
             /\ k \in RowIds
             /\ ToString(k) \notin DOMAIN FaultTable
                => /\ Len(RowOf(k)) = 16
                   /\ RowOf(k)[15] = args.uplift_rate

\* C13: without fault correlation data (no path, or no file at the path),
\* and complete zonal tables, do_bqart returns, and every row ends with the
\* two fields uplift rate and area * (uplift / 1000) / density.
C13_UniformUpliftAppended ==
    (DoBqartEnded /\ TablesComplete /\ DOMAIN FaultTable = {})
    => /\ dpc = "returned"
       /\ RowIds = DOMAIN precips
       /\ \A k \in RowIds :
             /\ Len(RowOf(k)) = 16
             /\ RowOf(k)[15] = args.uplift_rate
             /\ NumEq(RowOf(k)[16], Q_tectonic(k, args.uplift_rate))

\* The fixture zone: precipitation 1000 mm/yr, area 1e8 m2, elevations 0 to
\* 2000 m, temperature 200 (C x 10).
IsFixture(k) ==
    /\ k \in DOMAIN precips /\ k \in DOMAIN temps /\ k \in DOMAIN areas
    /\ NumEq(precips[k], PyInt(1000)) /\ NumEq(areas[k], PyFloat(1, 8))
    /\ NumEq(max_reliefs[k], PyInt(2000)) /\ NumEq(min_reliefs[k], PyInt(0))
    /\ NumEq(temps[k], PyInt(200))
\* The quantities of the chain other than the discharge in m3/s, for a row
\* of the fixture zone.
FixtureChain(k) ==
    /\ NumEq(RowOf(k)[8], PyInt(2))
    /\ NumEq(area_km_squared(k), PyInt(100))
    /\ NumEq(RowOf(k)[7], PyInt(10))
    /\ NumEq(precip_m(k), PyInt(1))
    /\ NumEq(precip_m3_yr(k), PyFloat(1, 8))
    /\ NumEq(RowOf(k)[9], PyInt(20))

\* C14 as stated: the row of the fixture zone has relief 2 km, area
\* 100 km2, A = 10, precipitation 1 m/yr, discharge 1e8 m3/yr, 20 C, and
\* Qw = 3.16888 m3/s to five decimals.
C14_FixtureChainTropicalYear ==
    \A k \in (IF dpc = "idle" THEN {} ELSE RowIds) :
       IsFixture(k) => /\ FixtureChain(k)
                       /\ Rounded(RowOf(k)[5], 5) = 316888

\* C14, amended: the same chain, with Qw = 1e8 / 31536000 = 3.17098 m3/s to
\* five decimals (the discharge over the seconds of a 365-day year).
C14_FixtureChain ==
    \A k \in (IF dpc = "idle" THEN {} ELSE RowIds) :
       IsFixture(k) => /\ FixtureChain(k)
                       /\ Rounded(RowOf(k)[5], 5) = 317098
                       /\ NumEq(RowOf(k)[5],
                                RealDiv(PyFloat(1, 8), PyInt(31536000)))

\* C14, its case: do_bqart has appended the row of the fixture zone.
C14_Witness == dpc # "idle" /\ \E k \in RowIds : IsFixture(k)

\* C15: in every row, Qs (m3/yr) is Qs (MT/yr) times the exact quotient
\* 1e9 / density times 1.3, and the temperature is the stored one over ten
\* without truncation.
C15_RealDivisions ==
    \A k \in (IF dpc = "idle" THEN {} ELSE RowIds) :
       /\ NumEq(RowOf(k)[12], PyMul(RowOf(k)[10], BulkFactorExact))
       /\ NumEq(RowOf(k)[9], RealDiv(temps[k], PyInt(10)))

(***************************************************************************)
(* Properties of the manifests.                                            *)
(***************************************************************************)
\* The mapping yaml.load reads from the Hydrology manifest of the batch.
ManifestOnDisk == yaml_load(yml[HydroFile(batch_path)])

\* C16: when fault_workflow has ended, hydro_paths.yml holds every key of
\* the dict the stage was given with the value it had, the two keys the
\* stage assigns excepted, which hold the path of the correlation file and
\* the fault attributes; and whenever hydro_workflow or fault_workflow has
\* just written the manifest, reading it back gives the dict that was
\* written.
C16_FaultManifestAdditive ==
    /\ pc = "fault_done"
       => /\ \A k \in DOMAIN args.hydro_paths \ {"fault_data", "fault_meta_data"} :
                /\ k \in DOMAIN ManifestOnDisk
                /\ ManifestOnDisk[k] = args.hydro_paths[k]
          /\ DOMAIN ManifestOnDisk
                = DOMAIN args.hydro_paths \cup {"fault_data", "fault_meta_data"}
          /\ ManifestOnDisk["fault_data"] = IntersectData(batch_path)
          /\ ManifestOnDisk["fault_meta_data"] = args.faultlines
    /\ pc \in {"save_full", "fault_done"} => ManifestOnDisk = hydro_paths

\* C16, its case: fault_workflow has rewritten a manifest that already held
\* fault keys from an earlier Fault stage, with other fault attributes.
C16_Witness ==
    /\ pc = "fault_done"
    /\ "fault_meta_data" \in DOMAIN args.hydro_paths
    /\ args.hydro_paths["fault_meta_data"] # args.faultlines
    /\ args.hydro_paths["fault_data_meta"] = ""
    /\ 1 \in DOMAIN args.faultlines

(***************************************************************************)
(* Properties of the Last-Run Record.                                      *)
(***************************************************************************)
\* C18: after any sequence of saves the record on disk maps every key
\* saved so far to the value of the latest save for it (no key is lost),
\* load_last_run returns that mapping, and it returns the false value
\* exactly when nothing was saved; the other YAML files are as they were.
C18_LastRunRecordKeepsLatest ==
    /\ load_last_run(yml) = args.record
    /\ args.read => args.loaded = args.record
    /\ (args.saves = 0) <=> (last_run_path \notin DOMAIN yml)
    /\ (args.saves = 0) <=> (DOMAIN load_last_run(yml) = {})
    /\ args.saves > 0 => args.record[args.key] = args.val
    /\ HydroFile(B0) \in DOMAIN yml
    /\ yaml_load(yml[HydroFile(B0)]) \in
          {HydroPathsDict(B0),
           FaultPathsDict(HydroPathsDict(B0), IntersectData(B0), faultlines)}

\* C18, its case: a load follows three saves or more that left both keys in
\* the record (so that a key was saved again), the latest with a value
\* that is not the other key's.
C18_Witness ==
    /\ args.saves = MaxSaves /\ args.read
    /\ DOMAIN args.loaded = LastRunKeys
    /\ args.loaded["hydro_batch"] # args.loaded["watershed_batch"]
    /\ args.val = ""

(***************************************************************************)
(* Properties of the resumed runs.                                         *)
(***************************************************************************)
\* The batches a full run of the script made and took to the end of its
\* Hydrology stage: they hold the copy of the DEM and a manifest.
FullRunBatches ==
    {b \in dirs : /\ join(b, "dem.tif") \in DOMAIN tif
                  /\ HydroFile(b) \in DOMAIN yml}

\* C17: a calculate_bqart run that resumes from the manifest of a batch a
\* full run produced, and whose external calls succeed, runs BQART to its
\* end on the watershed raster of that batch and on the fault data, fault
\* metadata and uplift rate of its manifest.
C17_ResumeMatchesFullRun ==
    (pc \in Ended /\ SkipToBqartMode /\ batch_path \in FullRunBatches
        /\ HydroFile(batch_path) \in opened /\ ExternalCallsSucceeded)
    => /\ pc = "done"
       /\ "BQART" \in finished
       /\ \E w \in BatchesIn(WatershedCalcs(batch_path)) :
             watershed_raster = WatershedRaster(w)
       /\ hydro_paths = yaml_load(yml[HydroFile(batch_path)])

\* C19: once a calculate_bqart run has saved hydro_batch, the value saved,
\* which is also the directory whose watershed_calcs is searched, is the
\* directory of the hydro_paths.yml the run has read.
C19_SavedBatchIsLoadedManifestDir ==
    (SkipToBqartMode /\ h_dir # Undef)
    => /\ HydroFile(h_dir) \in opened
       /\ "hydro_batch" \in DOMAIN load_last_run(yml)
       /\ load_last_run(yml)["hydro_batch"] = h_dir

\* The files and directories of the climate cache of a watershed batch and
\* of its climate_calcs directory.
InClimateDirs(w, path) ==
    \/ path \in {ClimateCache(w), join(w, "climate_calcs")}
    \/ \E d \in DataTypes, sc \in Scenarios :
          path \in {ClipPath(w, d, sc), CombinedPath(w, d, sc)}
    \/ \E n \in 0..now, x \in {"", "/temp_data", "/precip_data", "/elev_data",
                               "/qs_data.csv"} :
          path = join(join(w, "climate_calcs"), get_time_string(n)) \o x
\* The paths at which two file maps differ.
Changed(f, g) ==
    {x \in DOMAIN f \cup DOMAIN g :
        ~(x \in DOMAIN f /\ x \in DOMAIN g /\ f[x] = g[x])}

\* C20: no step of a calculate_bqart run starts the Hydrology, Fault or
\* Watershed stage; the only YAML file a step writes is the Last-Run
\* Record, and every other file or directory it creates or changes lies in
\* the climate cache or in the climate_calcs directory of the watershed
\* batch, so that manifests, terrain outputs and watershed outputs stay as
\* they were.
C20_BqartRunFrame ==
    [][ (skip_to_discharge = 1 /\ skip_to_discharge' = 1 /\ runNo' = runNo)
        => /\ Range(stages') \subseteq {"BQART"}
           /\ Changed(yml, yml') \subseteq {last_run_path}
           /\ \A x \in Changed(tif, tif') \cup Changed(tables, tables')
                        \cup Changed(csv, csv') \cup (dirs' \ dirs) :
                 InClimateDirs(watershed_directory', x)
           /\ dirs \subseteq dirs'
      ]_vars

\* C20, its case: a calculate_bqart run has ended its BQART stage after
\* building a cache entry and writing its output table.
C20_Witness ==
    /\ SkipToBqartMode /\ pc = "done" /\ "BQART" \in finished
    /\ invoked # {}
    /\ join(climate_batch_path, "qs_data.csv") \in DOMAIN csv
    /\ last_run_path \in DOMAIN yml

====
